---------------------------- MODULE Spec2Model ----------------------------
(***************************************************************************)
(* A model of Stocker.DataAnalysis' BasePortfolio                          *)
(* (src/Portfolios/base_portfolio.py): the calendar helpers                *)
(* last_day_of_month and find_closest_earlier_date, the rebalance date     *)
(* generator, the portfolio's allocate / balance / walk / rebalance /      *)
(* get_total_value operations, and the statistics calculate_cagr,          *)
(* calculate_monthly_returns, calculate_annually_returns, calculate_stdev  *)
(* and calculate_max_drawdown, and __str__, which fills the monthly and    *)
(* the annual table.                                                       *)
(*                                                                         *)
(* Dates are proleptic Gregorian ordinals (datetime.date.toordinal()).     *)
(* Python floats are modelled as exact rationals <<numerator, denominator>>*)
(* in lowest terms, so that "b * w / 100" loses nothing to rounding.       *)
(***************************************************************************)
EXTENDS Integers, Sequences, FiniteSets, TLC

VARIABLES
    funds,               \* self.funds: ticker -> balance (rational)
    allocations,         \* self.allocations: ticker -> percent
    return_series,       \* self.return_series: ticker -> granularity -> series
    start_date,          \* self.start_date
    current_date,        \* self.current_date
    end_date,            \* self.end_date
    rebalance_frequency, \* self.rebalance_frequency, as the caller passed it
    rebalance_dates,     \* self.rebalance_dates
    useful_dates,        \* self.useful_dates
    daily_returns,       \* self.daily_returns: rows [date, Returns, Change]
    final_returns,       \* self.final_returns: date -> value
    pc,                  \* where the single thread of control stands
    walk_i,              \* position of calculate_daily_returns' for loop
    direct_calls,        \* how many times a caller has revalued or reset the funds
    last,                \* the last call made on the portfolio and its outcome
    probe,               \* the last call of a module-level pure function
    monthly_returns,     \* self.monthly_returns: rows [date, Returns, Change]
    stat,                \* the last statistic asked for and its outcome
    annually_returns,    \* self.annually_returns: rows [date, Returns, Change]
    rendered             \* whether __str__ has been invoked

vars == <<funds, allocations, return_series, start_date, current_date, end_date,
          rebalance_frequency, rebalance_dates, useful_dates, daily_returns,
          final_returns, pc, walk_i, direct_calls, last, probe, monthly_returns,
          stat, annually_returns, rendered>>

-----------------------------------------------------------------------------
(* Sequences *)

Range(s) == {s[k] : k \in 1..Len(s)}

RECURSIVE SortedSeq(_)
\* The elements of a finite set of integers, ascending.
SortedSeq(S) ==
    IF S = {} THEN <<>>
    ELSE LET m == CHOOSE x \in S : \A y \in S : x <= y
         IN  <<m>> \o SortedSeq(S \ {m})

IsStrictlyIncreasing(s) == \A k \in 1..(Len(s) - 1) : s[k] < s[k + 1]

-----------------------------------------------------------------------------
(* datetime.date arithmetic, as the standard library computes it *)

\* Python's None, where a date is expected.
None == -1

IsLeap(y) == (y % 4 = 0 /\ y % 100 # 0) \/ y % 400 = 0

DaysInMonth(y, m) ==
    IF m \in {1, 3, 5, 7, 8, 10, 12} THEN 31
    ELSE IF m \in {4, 6, 9, 11} THEN 30
    ELSE IF IsLeap(y) THEN 29 ELSE 28

DaysBeforeYear(y) ==
    (y - 1) * 365 + ((y - 1) \div 4) - ((y - 1) \div 100) + ((y - 1) \div 400)

\* The days of a year before its month m.
DaysBeforeMonth(y, m) ==
    <<0, 31, 59, 90, 120, 151, 181, 212, 243, 273, 304, 334>>[m]
        + (IF m > 2 /\ IsLeap(y) THEN 1 ELSE 0)

\* datetime.date(y, m, d).toordinal()
DateOf(y, m, d) == DaysBeforeYear(y) + DaysBeforeMonth(y, m) + d

\* <<year, month, day>> of an ordinal, by the 400-, 100-, 4- and 1-year
\* cycles of the Gregorian calendar.
YMD(ordinal) ==
    LET n0   == ordinal - 1
        n400 == n0 \div 146097
        r400 == n0 % 146097
        n100 == r400 \div 36524
        r100 == r400 % 36524
        n4   == r100 \div 1461
        r4   == r100 % 1461
        n1   == r4 \div 365
        n    == r4 % 365
        y    == n400 * 400 + 1 + n100 * 100 + n4 * 4 + n1
        est  == (n + 50) \div 32
        m    == IF DaysBeforeMonth(y, est) > n THEN est - 1 ELSE est
    IN  IF n1 = 4 \/ n100 = 4 THEN <<y - 1, 12, 31>>
        ELSE <<y, m, n - DaysBeforeMonth(y, m) + 1>>

\* date.year
Year(n) == YMD(n)[1]

\* date.month
Month(n) == YMD(n)[2]

\* date.day
Day(n) == YMD(n)[3]

\* date.replace(day=d)
ReplaceDay(n, d) == LET ymd == YMD(n) IN DateOf(ymd[1], ymd[2], d)

\* date + datetime.timedelta(days=k), k possibly negative
AddDays(n, k) == n + k

\* date + relativedelta(months=+k): the month advances, the day is clamped
\* to the length of the month reached.
AddMonths(n, k) ==
    LET ymd   == YMD(n)
        total == (ymd[1] * 12 + (ymd[2] - 1)) + k
        y     == total \div 12
        m     == (total % 12) + 1
        d     == IF ymd[3] > DaysInMonth(y, m) THEN DaysInMonth(y, m) ELSE ymd[3]
    IN  DateOf(y, m, d)

-----------------------------------------------------------------------------
(* The module-level helpers of base_portfolio.py *)

last_day_of_month_short(any_day) ==
    LET next_month == AddDays(ReplaceDay(any_day, 28), 3)
    IN  AddDays(next_month, 0 - Day(next_month))

\* def last_day_of_month(any_day)
last_day_of_month(any_day) ==
    LET next_month == AddDays(ReplaceDay(any_day, 28), 4)
    IN  AddDays(next_month, 0 - Day(next_month))

\* [date for date in date_list if date <= target_date]
RECURSIVE EarlierDates(_, _)
EarlierDates(target_date, date_list) ==
    IF date_list = <<>> THEN <<>>
    ELSE (IF Head(date_list) <= target_date THEN <<Head(date_list)>> ELSE <<>>)
         \o EarlierDates(target_date, Tail(date_list))

\* Python's min(seq, key=...): the first element whose key is minimal.
RECURSIVE MinByDistance(_, _, _)
MinByDistance(target_date, dates, best) ==
    IF dates = <<>> THEN best
    ELSE MinByDistance(target_date, Tail(dates),
                       IF (target_date - Head(dates)) < (target_date - best)
                       THEN Head(dates) ELSE best)

find_closest_strictly_earlier(target_date, date_list) ==
    LET earlier_dates == EarlierDates(target_date - 1, date_list)
    IN  IF earlier_dates = <<>> THEN None
        ELSE MinByDistance(target_date, Tail(earlier_dates), Head(earlier_dates))

\* def find_closest_earlier_date(target_date, date_list)
find_closest_earlier_date(target_date, date_list) ==
    LET earlier_dates == EarlierDates(target_date, date_list)
    IN  IF earlier_dates = <<>> THEN None
        ELSE MinByDistance(target_date, Tail(earlier_dates), Head(earlier_dates))

-----------------------------------------------------------------------------
(* Python floats, as exact rationals <<numerator, denominator>> *)

Abs(x) == IF x < 0 THEN 0 - x ELSE x

RECURSIVE GCD(_, _)
GCD(a, b) == IF b = 0 THEN a ELSE GCD(b, a % b)

\* n/d in lowest terms, d > 0.
RNorm(n, d) == LET g == GCD(Abs(n), d) IN <<n \div g, d \div g>>

RInt(k) == <<k, 1>>

\* Common factors are taken out before the products are formed.
RAdd(x, y) ==
    LET g == GCD(x[2], y[2])
    IN  RNorm(x[1] * (y[2] \div g) + y[1] * (x[2] \div g), (x[2] \div g) * y[2])

RMul(x, y) ==
    LET g == GCD(Abs(x[1]), y[2])
        h == GCD(Abs(y[1]), x[2])
    IN  RNorm((x[1] \div g) * (y[1] \div h), (x[2] \div h) * (y[2] \div g))

\* x / k for an integer k > 0
RDivInt(x, k) == RNorm(x[1], x[2] * k)

\* float('nan') and float('inf'), which no arithmetic of the model consumes
NaN == <<0, 0>>

Inf == <<1, 0>>

\* x / y - 1 as pandas' pct_change computes it: 0/0 is NaN, x/0 is inf.
PctChange(x, y) ==
    IF y[1] = 0 THEN (IF x[1] = 0 THEN NaN ELSE Inf)
    ELSE RAdd(RNorm(x[1] * y[2], x[2] * y[1]), RInt(0 - 1))

-----------------------------------------------------------------------------
(* Constants/rebalance_date_options.py *)

RDO ==
    [NEVER         |-> [name |-> "never",         returns |-> "full_return"],
     ANNUALLY      |-> [name |-> "annually",      returns |-> "annually_returns"],
     SEMI_ANNUALLY |-> [name |-> "semi annually", returns |-> "semi_annually_returns"],
     QUARTERLY     |-> [name |-> "quarterly",     returns |-> "quarterly_returns"],
     MONTHLY       |-> [name |-> "monthly",       returns |-> "monthly_returns"],
     WEEKLY        |-> [name |-> "weekly",        returns |-> "weekly_returns"],
     DAILY         |-> [name |-> "daily",         returns |-> "daily_returns"]]

RDOKeys == {"NEVER", "ANNUALLY", "SEMI_ANNUALLY", "QUARTERLY", "MONTHLY",
            "WEEKLY", "DAILY"}

\* What a caller passes as rebalance_frequency: an entry of RDO (the
\* constructor's default is RDO["NEVER"]) or, as the subclasses' "str"
\* annotation and line 260 expect, the bare name of one.
FrequencyEntry(k) == [form |-> "entry", name |-> RDO[k].name]

FrequencyName(k) == [form |-> "name", name |-> RDO[k].name]

-----------------------------------------------------------------------------
(* BasePortfolio.generate_rebalance_dates *)

StepMonthsWeeklyDailyStepped(name) ==
    IF name \in {RDO.MONTHLY.name, RDO.WEEKLY.name, RDO.DAILY.name} THEN 1
    ELSE IF name = RDO.QUARTERLY.name THEN 3
    ELSE IF name = RDO.SEMI_ANNUALLY.name THEN 6
    ELSE IF name = RDO.ANNUALLY.name THEN 12
    ELSE 0

\* frequencies.get(self.rebalance_frequency["name"]): the step in months,
\* 0 standing for None (no step for never, weekly and daily).
StepMonths(name) ==
    IF name = RDO.MONTHLY.name THEN 1
    ELSE IF name = RDO.QUARTERLY.name THEN 3
    ELSE IF name = RDO.SEMI_ANNUALLY.name THEN 6
    ELSE IF name = RDO.ANNUALLY.name THEN 12
    ELSE 0

\* Lines 282-284: the end date is appended unless it is already there.
AppendEnd(dates, end) ==
    [status |-> "ok",
     dates  |-> IF end \in Range(dates) THEN dates ELSE Append(dates, end)]

EmitDateAlways(dates, snapped, start) == Append(dates, snapped)

\* Lines 277-278: the snapped date is recorded unless it is the start date.
EmitDate(dates, snapped, start) ==
    IF snapped # start THEN Append(dates, snapped) ELSE dates

\* The while loop of lines 272-281 from the loop head on. Its head date
\* after an iteration is a monotone function of its head date before, so an
\* iteration that does not advance the head date is repeated for ever:
\* status "hang". None + relativedelta raises TypeError.
RECURSIVE RebalanceLoop(_, _, _, _, _, _)
RebalanceLoop(current, dates, start, end, delta, useful) ==
    IF ~(current <= end) THEN AppendEnd(dates, end)
    ELSE LET month_end == IF delta # 0 THEN last_day_of_month(current) ELSE current
             snapped   == IF month_end \notin Range(useful)
                          THEN find_closest_earlier_date(month_end, useful)
                          ELSE month_end
             dates2    == EmitDate(dates, snapped, start)
         IN  IF delta = 0 THEN AppendEnd(dates2, end)
             ELSE IF snapped = None THEN [status |-> "TypeError", dates |-> dates2]
             ELSE IF AddMonths(snapped, delta) <= current
                  THEN [status |-> "hang", dates |-> dates2]
             ELSE RebalanceLoop(AddMonths(snapped, delta), dates2, start, end,
                                delta, useful)

\* The outcome of generate_rebalance_dates: "returned" is the early return
\* of line 261, which assigns nothing; "ok" assigns dates to
\* self.rebalance_dates; a bare name other than "never" cannot be
\* subscripted at line 269 (TypeError).
generate_rebalance_dates(frequency, start, end, useful) ==
    IF frequency.form = "name"
    THEN IF frequency.name = RDO.NEVER.name
         THEN [status |-> "returned", dates |-> <<end>>]
         ELSE [status |-> "TypeError", dates |-> <<>>]
    ELSE RebalanceLoop(start, <<>>, start, end, StepMonths(frequency.name), useful)

-----------------------------------------------------------------------------
(* BasePortfolio: funds, allocation and valuation *)

\* The keys of initial_funds, in the dict's insertion order.
TickerOrder == <<"A", "B", "cash">>

Tickers == Range(TickerOrder)

\* allocations.get(ticker, 0)
Weight(alloc, ticker) == IF ticker \in DOMAIN alloc THEN alloc[ticker] ELSE 0

RECURSIVE SumWeights(_, _)
SumWeights(alloc, keys) ==
    IF keys = {} THEN 0
    ELSE LET k == CHOOSE x \in keys : TRUE
         IN  alloc[k] + SumWeights(alloc, keys \ {k})

\* sum(allocations.values())
TotalWeight(alloc) == SumWeights(alloc, DOMAIN alloc)

\* amount * weight / 100
Share(amount, weight) == RDivInt(RMul(amount, RInt(weight)), 100)

DistributeAllocatedOnly(f, alloc, amount) ==
    [t \in DOMAIN f |->
        IF t \in DOMAIN alloc THEN Share(amount, alloc[t]) ELSE f[t]]

\* The loop of balance (214-215) and of rebalance (246-251): every key of
\* funds is set to its share of amount.
Distribute(f, alloc, amount) ==
    [t \in DOMAIN f |-> Share(amount, Weight(alloc, t))]

AllocateOutcomeInclusive(w) == IF TotalWeight(w) >= 100 THEN "ValueError" ELSE "none"

\* allocate's check, line 204
AllocateOutcome(w) == IF TotalWeight(w) > 100 THEN "ValueError" ELSE "none"

\* The rows of a series whose date is <= until: ticker_returns[:until]
RECURSIVE SeriesUpTo(_, _)
SeriesUpTo(series, until) ==
    IF series = <<>> THEN <<>>
    ELSE (IF Head(series).date <= until THEN <<Head(series)>> ELSE <<>>)
         \o SeriesUpTo(Tail(series), until)

ReturnUpToDateFirst(series, until) ==
    IF \E k \in 1..Len(series) : series[k].date = until
    THEN [err |-> "none",
          ret |-> series[CHOOSE k \in 1..Len(series) : series[k].date = until].ret]
    ELSE LET upto == SeriesUpTo(series, until)
         IN  IF upto = <<>> THEN [err |-> "IndexError", ret |-> RInt(0)]
             ELSE [err |-> "none", ret |-> upto[1].ret]

\* Lines 311-315: the return at until, or else the last one before it;
\* .iloc[-1] of an empty slice raises IndexError.
ReturnUpToDate(series, until) ==
    IF \E k \in 1..Len(series) : series[k].date = until
    THEN [err |-> "none",
          ret |-> series[CHOOSE k \in 1..Len(series) : series[k].date = until].ret]
    ELSE LET upto == SeriesUpTo(series, until)
         IN  IF upto = <<>> THEN [err |-> "IndexError", ret |-> RInt(0)]
             ELSE [err |-> "none", ret |-> upto[Len(upto)].ret]

RECURSIVE TotalValueLoopMissingRaises(_, _, _, _, _, _)
\* The loop with a lookup that raises for a key that has no return series.
TotalValueLoopMissingRaises(order, f, total, series, returns_type, until) ==
    IF order = <<>> THEN [err |-> "none", funds |-> f, total |-> total]
    ELSE LET ticker == Head(order)
             found  == IF ticker \in DOMAIN series
                       THEN ReturnUpToDate(series[ticker][returns_type], until)
                       ELSE [err |-> "KeyError", ret |-> RInt(0)]
             ticker_value == RMul(f[ticker], RAdd(RInt(1), found.ret))
         IN  IF found.err # "none"
             THEN [err |-> found.err, funds |-> f, total |-> total]
             ELSE TotalValueLoopMissingRaises(Tail(order),
                                              [f EXCEPT ![ticker] = ticker_value],
                                              RAdd(total, ticker_value), series,
                                              returns_type, until)

\* The for loop of get_total_value (301-323) over the tickers still to
\* visit: each balance is grown in place and added to the total; an
\* exception leaves the balances already visited grown.
RECURSIVE TotalValueLoop(_, _, _, _, _, _)
TotalValueLoop(order, f, total, series, returns_type, until) ==
    IF order = <<>> THEN [err |-> "none", funds |-> f, total |-> total]
    ELSE LET ticker == Head(order)
             found  == IF ticker \in DOMAIN series
                       THEN ReturnUpToDate(series[ticker][returns_type], until)
                       ELSE [err |-> "none", ret |-> RInt(0)]
             ticker_value == RMul(f[ticker], RAdd(RInt(1), found.ret))
         IN  IF found.err # "none"
             THEN [err |-> found.err, funds |-> f, total |-> total]
             ELSE TotalValueLoop(Tail(order), [f EXCEPT ![ticker] = ticker_value],
                                 RAdd(total, ticker_value), series, returns_type,
                                 until)

\* def get_total_value(self, returns_type, until)
get_total_value(f, series, returns_type, until) ==
    TotalValueLoop(TickerOrder, f, RInt(0), series, returns_type, until)

\* daily_returns['Change'] = daily_returns['Returns'].pct_change()
WithChange(rows) ==
    [k \in 1..Len(rows) |->
        [rows[k] EXCEPT !.Change =
            IF k = 1 THEN NaN ELSE PctChange(rows[k].Returns, rows[k - 1].Returns)]]

-----------------------------------------------------------------------------
(* The portfolio's operations *)

\* What the constructor is given: initial_funds (main.py: every ticker 0,
\* cash 10000).
InitialFunds == [A |-> RInt(0), B |-> RInt(0), cash |-> RInt(10000)]

\* The record of a call: its arguments and its outcome (the exception it
\* raised, the value it returned).
Call(op, err, w, amount, returns_type, until, ret) ==
    [op |-> op, err |-> err, w |-> w, amount |-> amount,
     returns_type |-> returns_type, until |-> until, ret |-> ret]

NoWeights == [t \in Tickers |-> 0]

NoArgs(op, err) == Call(op, err, NoWeights, RInt(0), "", None, RInt(0))

NoCall == NoArgs("none", "none")

NoProbe == [fn |-> "none", target |-> None, list |-> <<>>, result |-> None,
            again |-> None]

NoStat == [fn |-> "none", err |-> "none", value |-> "none"]

\* __init__ (lines 19-32) for one choice of the constructor's arguments.
Construct(series, start, end, frequency) ==
    /\ funds = InitialFunds
    /\ return_series = series
    /\ start_date = start
    /\ current_date = start
    /\ end_date = end
    /\ rebalance_frequency = frequency
    /\ rebalance_dates = <<>>
    /\ allocations = [t \in Tickers |-> 0]
    /\ final_returns = <<[date |-> start, value |-> InitialFunds["cash"]]>>
    /\ useful_dates = <<>>
    /\ daily_returns = <<>>
    /\ pc = "idle"
    /\ walk_i = 0
    /\ direct_calls = 0
    /\ last = NoCall
    /\ probe = NoProbe
    /\ monthly_returns = <<>>
    /\ stat = NoStat
    /\ annually_returns = <<>>
    /\ rendered = FALSE

\* allocate(allocations), lines 204-207
Allocate(w) ==
    /\ pc = "idle"
    /\ allocations' = IF AllocateOutcome(w) = "none" THEN w ELSE allocations
    /\ last' = Call("allocate", AllocateOutcome(w), w, RInt(0), "", None, RInt(0))
    /\ UNCHANGED <<funds, return_series, start_date, current_date, end_date,
                   rebalance_frequency, rebalance_dates, useful_dates,
                   daily_returns, final_returns, pc, walk_i, direct_calls, probe,
                   monthly_returns, stat,
                   annually_returns, rendered>>

\* calculate_returns without line 78.
CalculateReturnsKeepDates(hist) ==
    /\ pc = "idle"
    /\ last' = NoArgs("calculate_returns", IF hist = {} THEN "IndexError" ELSE "none")
    /\ UNCHANGED <<funds, allocations, return_series, start_date, current_date,
                   end_date, rebalance_frequency, rebalance_dates, useful_dates,
                   daily_returns, final_returns, pc, walk_i, direct_calls, probe,
                   monthly_returns, stat,
                   annually_returns, rendered>>

\* calculate_returns(hist_data), lines 46-89, for a price history with a
\* record at each date of hist: an empty history raises at .iloc[0]
\* (line 60); otherwise line 78 stores the history's dates, ascending.
CalculateReturns(hist) ==
    /\ pc = "idle"
    /\ useful_dates' = IF hist = {} THEN useful_dates ELSE SortedSeq(hist)
    /\ last' = NoArgs("calculate_returns", IF hist = {} THEN "IndexError" ELSE "none")
    /\ UNCHANGED <<funds, allocations, return_series, start_date, current_date,
                   end_date, rebalance_frequency, rebalance_dates, daily_returns,
                   final_returns, pc, walk_i, direct_calls, probe,
                   monthly_returns, stat,
                   annually_returns, rendered>>

\* balance(initial_cash), lines 214-216, up to the for loop of
\* calculate_daily_returns: the funds are distributed, then line 222
\* generates the rebalance dates.
Balance(initial_cash) ==
    LET gen == generate_rebalance_dates(rebalance_frequency, start_date, end_date,
                                        useful_dates)
    IN  /\ pc = "idle"
        /\ funds' = Distribute(funds, allocations, initial_cash)
        /\ rebalance_dates' = IF gen.status = "ok" THEN gen.dates ELSE rebalance_dates
        /\ pc' = IF gen.status \in {"ok", "returned"} THEN "walk"
                 ELSE IF gen.status = "hang" THEN "hang" ELSE "idle"
        /\ walk_i' = 1
        /\ last' = Call("balance",
                        IF gen.status \in {"ok", "returned", "hang"} THEN "none"
                        ELSE gen.status,
                        NoWeights, initial_cash, "", None, RInt(0))
        /\ UNCHANGED <<allocations, return_series, start_date, current_date,
                       end_date, rebalance_frequency, useful_dates, daily_returns,
                       final_returns, direct_calls, probe,
                   monthly_returns, stat,
                   annually_returns, rendered>>

\* The iteration with a row recorded at the rebalance dates only.
WalkStepRecordingRebalances ==
    LET date  == useful_dates[walk_i]
        value == get_total_value(funds, return_series, "daily_returns", date)
        rows  == Append(daily_returns,
                        [date |-> date, Returns |-> value.total, Change |-> NaN])
    IN  /\ pc = "walk"
        /\ walk_i <= Len(useful_dates)
        /\ IF value.err # "none"
           THEN /\ funds' = value.funds
                /\ pc' = "idle"
                /\ last' = [last EXCEPT !.err = value.err]
                /\ UNCHANGED <<daily_returns, walk_i>>
           ELSE /\ daily_returns' = IF date \in Range(rebalance_dates) THEN rows
                                    ELSE daily_returns
                /\ funds' = IF date \in Range(rebalance_dates)
                            THEN Distribute(value.funds, allocations,
                                            rows[Len(rows)].Returns)
                            ELSE value.funds
                /\ walk_i' = walk_i + 1
                /\ UNCHANGED <<pc, last>>
        /\ UNCHANGED <<allocations, return_series, start_date, current_date,
                       end_date, rebalance_frequency, rebalance_dates, useful_dates,
                       final_returns, direct_calls, probe, monthly_returns, stat,
                       annually_returns, rendered>>

\* One iteration of the for loop of calculate_daily_returns, lines 224-235:
\* the funds are revalued at the date, the value is appended to
\* daily_returns, and on a rebalance date rebalance() resets the funds.
WalkStep ==
    LET date  == useful_dates[walk_i]
        value == get_total_value(funds, return_series, "daily_returns", date)
        rows  == Append(daily_returns,
                        [date |-> date, Returns |-> value.total, Change |-> NaN])
    IN  /\ pc = "walk"
        /\ walk_i <= Len(useful_dates)
        /\ IF value.err # "none"
           THEN /\ funds' = value.funds
                /\ pc' = "idle"
                /\ last' = [last EXCEPT !.err = value.err]
                /\ UNCHANGED <<daily_returns, walk_i>>
           ELSE /\ daily_returns' = rows
                /\ funds' = IF date \in Range(rebalance_dates)
                            THEN Distribute(value.funds, allocations,
                                            rows[Len(rows)].Returns)
                            ELSE value.funds
                /\ walk_i' = walk_i + 1
                /\ UNCHANGED <<pc, last>>
        /\ UNCHANGED <<allocations, return_series, start_date, current_date,
                       end_date, rebalance_frequency, rebalance_dates, useful_dates,
                       final_returns, direct_calls, probe,
                   monthly_returns, stat,
                   annually_returns, rendered>>

\* The end of calculate_daily_returns, line 238, and balance's return.
WalkEnd ==
    /\ pc = "walk"
    /\ walk_i > Len(useful_dates)
    /\ daily_returns' = WithChange(daily_returns)
    /\ pc' = "idle"
    /\ UNCHANGED <<funds, allocations, return_series, start_date, current_date,
                   end_date, rebalance_frequency, rebalance_dates, useful_dates,
                   final_returns, walk_i, direct_calls, last, probe,
                   monthly_returns, stat,
                   annually_returns, rendered>>

\* A caller's get_total_value(returns_type, until); until = None stands for
\* the default, self.current_date (lines 297-298).
GetTotalValue(returns_type, until) ==
    LET date  == IF until = None THEN current_date ELSE until
        value == get_total_value(funds, return_series, returns_type, date)
    IN  /\ pc = "idle"
        /\ funds' = value.funds
        /\ direct_calls' = direct_calls + 1
        /\ last' = Call("get_total_value", value.err, NoWeights, RInt(0),
                        returns_type, date, value.total)
        /\ UNCHANGED <<allocations, return_series, start_date, current_date,
                       end_date, rebalance_frequency, rebalance_dates, useful_dates,
                       daily_returns, final_returns, pc, walk_i, probe,
                   monthly_returns, stat,
                   annually_returns, rendered>>

\* A caller's rebalance(), lines 246-251: .iloc[-1] of an empty
\* daily_returns raises IndexError before any fund is written.
Rebalance ==
    /\ pc = "idle"
    /\ funds' = IF daily_returns = <<>> THEN funds
                ELSE Distribute(funds, allocations,
                                daily_returns[Len(daily_returns)].Returns)
    /\ direct_calls' = direct_calls + 1
    /\ last' = NoArgs("rebalance",
                      IF daily_returns = <<>> THEN "IndexError" ELSE "none")
    /\ UNCHANGED <<allocations, return_series, start_date, current_date, end_date,
                   rebalance_frequency, rebalance_dates, useful_dates,
                   daily_returns, final_returns, pc, walk_i, probe,
                   monthly_returns, stat,
                   annually_returns, rendered>>

-----------------------------------------------------------------------------
(* The portfolio run: one portfolio, its callers' calls in any order *)

\* How many rows daily_returns may come to hold (a balance that would add
\* more is not started), and how many times a caller calls get_total_value
\* or rebalance itself.
MaxRows == 4

MaxDirectCalls == 1

P1 == DateOf(2021, 12, 31)

P2 == DateOf(2022, 1, 28)

P3 == DateOf(2022, 1, 31)

P4 == DateOf(2022, 2, 28)

Row(date, num, den) == [date |-> date, ret |-> <<num, den>>]

\* The returns_type keys of a ticker's series: RDO's "returns" names.
ReturnsTypes == {RDO[k].returns : k \in RDOKeys}

\* A ticker's series: daily, full-period (one row, at the last date) and,
\* for every resampled granularity, period rows.
SeriesOf(daily, full, period) ==
    [g \in ReturnsTypes |->
        IF g = RDO.DAILY.returns THEN daily
        ELSE IF g = RDO.NEVER.returns THEN full ELSE period]

\* +10% then -50% over P1, P2, P3.
SeriesFromStart ==
    SeriesOf(<<Row(P1, 0, 1), Row(P2, 1, 10), Row(P3, 0 - 1, 2)>>,
             <<Row(P3, 0 - 9, 20)>>,
             <<Row(P1, 0, 1), Row(P3, 0 - 9, 20)>>)

\* A history that begins after the start date: +100% over P2, P3.
SeriesFromLater ==
    SeriesOf(<<Row(P2, 0, 1), Row(P3, 1, 1)>>,
             <<Row(P3, 1, 1)>>,
             <<Row(P3, 0, 1)>>)

\* +20% at P3, +25% at P4.
SeriesSparse ==
    SeriesOf(<<Row(P1, 0, 1), Row(P3, 1, 5), Row(P4, 1, 4)>>,
             <<Row(P4, 1, 2)>>,
             <<Row(P1, 0, 1), Row(P3, 1, 5), Row(P4, 1, 4)>>)

SeriesInputs ==
    { [A |-> SeriesFromStart, B |-> SeriesSparse],
      [A |-> SeriesFromLater],
      [t \in {} |-> SeriesSparse] }

FrequencyInputs ==
    { FrequencyEntry("NEVER"), FrequencyEntry("MONTHLY"), FrequencyName("NEVER") }

WeightInputs ==
    { [A |-> 50, B |-> 50],
      [A |-> 60, B |-> 50],
      [A |-> 50] }

HistInputs == { {}, {P1, P2}, {P1, P3, P4} }

AmountInputs == { RInt(10000) }

CalledReturnsTypes == { RDO.DAILY.returns, RDO.NEVER.returns }

UntilInputs == { None, P4 }

Init ==
    \E series \in SeriesInputs, end \in {P3, P4}, frequency \in FrequencyInputs :
        Construct(series, P1, end, frequency)

Next ==
    \/ \E w \in WeightInputs : Allocate(w)
    \/ \E hist \in HistInputs : CalculateReturns(hist)
    \/ \E c \in AmountInputs :
          /\ Len(daily_returns) + Len(useful_dates) <= MaxRows
          /\ Balance(c)
    \/ WalkStep
    \/ WalkEnd
    \/ \E g \in CalledReturnsTypes, until \in UntilInputs :
          /\ direct_calls < MaxDirectCalls
          /\ GetTotalValue(g, until)
    \/ /\ direct_calls < MaxDirectCalls
       /\ Rebalance

Spec == Init /\ [][Next]_vars

-----------------------------------------------------------------------------
(* The rebalance dates: generate_rebalance_dates on a portfolio whose start,
   end, frequency and available dates range widely *)

\* A caller's generate_rebalance_dates(), lines 260-284. A call that hangs
\* never returns.
GenerateRebalanceDates ==
    LET gen == generate_rebalance_dates(rebalance_frequency, start_date, end_date,
                                        useful_dates)
    IN  /\ pc = "idle"
        /\ rebalance_dates' = IF gen.status = "ok" THEN gen.dates ELSE rebalance_dates
        /\ pc' = IF gen.status = "hang" THEN "hang" ELSE "idle"
        /\ last' = NoArgs("generate_rebalance_dates",
                          IF gen.status = "TypeError" THEN "TypeError" ELSE "none")
        /\ UNCHANGED <<funds, allocations, return_series, start_date, current_date,
                       end_date, rebalance_frequency, useful_dates, daily_returns,
                       final_returns, walk_i, direct_calls, probe,
                   monthly_returns, stat,
                   annually_returns, rendered>>

\* The months after December 2021 that the dates span.
Horizon == 3

MonthEnd(j) == AddMonths(P1, j)

\* Each month's last calendar day and the day three days before it (the
\* last trading day of a month that ends on a weekend).
TradingDayInputs ==
    {MonthEnd(j) : j \in 0..Horizon} \cup {MonthEnd(j) - 3 : j \in 0..Horizon}

\* Start and end dates: the month ends and a day inside a month.
BoundaryInputs == {MonthEnd(j) : j \in 0..Horizon} \cup {DateOf(2022, 1, 10)}

AllFrequencyInputs ==
    {FrequencyEntry(k) : k \in RDOKeys}
        \cup {FrequencyName("NEVER"), FrequencyName("MONTHLY")}

InitDates ==
    \E start \in BoundaryInputs, end \in BoundaryInputs,
       frequency \in AllFrequencyInputs :
        /\ start <= end
        /\ Construct([t \in {} |-> SeriesSparse], start, end, frequency)

\* The available dates are loaded first, by one calculate_returns or none.
NextDates ==
    \/ \E hist \in SUBSET TradingDayInputs :
          /\ last.op = "none"
          /\ CalculateReturns(hist)
    \/ GenerateRebalanceDates

SpecDates == InitDates /\ [][NextDates]_vars

-----------------------------------------------------------------------------
(* The calendar helpers, called on their own *)

\* The years whose days last_day_of_month is applied to.
FirstYear == 2021

NumYears == 4

CalendarDays == DateOf(FirstYear, 1, 1)..DateOf(FirstYear + NumYears - 1, 12, 31)

\* The lists find_closest_earlier_date is given: at most MaxListLen dates,
\* in any order and with repetitions, out of ListSpan consecutive days.
ListSpan == 4

MaxListLen == 3

ListDays == P2..(P2 + ListSpan - 1)

ListInputs == UNION {[1..n -> ListDays] : n \in 0..MaxListLen}

\* last_day_of_month(any_day), and again on its own result
LastDayOfMonthCall(any_day) ==
    /\ probe' = [fn |-> "last_day_of_month", target |-> any_day, list |-> <<>>,
                 result |-> last_day_of_month(any_day),
                 again |-> last_day_of_month(last_day_of_month(any_day))]
    /\ UNCHANGED <<funds, allocations, return_series, start_date, current_date,
                   end_date, rebalance_frequency, rebalance_dates, useful_dates,
                   daily_returns, final_returns, pc, walk_i, direct_calls, last,
                   monthly_returns, stat,
                   annually_returns, rendered>>

\* find_closest_earlier_date(target_date, date_list)
FindClosestEarlierDateCall(target_date, date_list) ==
    /\ probe' = [fn |-> "find_closest_earlier_date", target |-> target_date,
                 list |-> date_list,
                 result |-> find_closest_earlier_date(target_date, date_list),
                 again |-> None]
    /\ UNCHANGED <<funds, allocations, return_series, start_date, current_date,
                   end_date, rebalance_frequency, rebalance_dates, useful_dates,
                   daily_returns, final_returns, pc, walk_i, direct_calls, last,
                   monthly_returns, stat,
                   annually_returns, rendered>>

InitCalendar ==
    Construct([t \in {} |-> SeriesSparse], P1, P3, FrequencyEntry("NEVER"))

\* One call a run: a helper's result depends on its arguments alone.
NextCalendar ==
    \/ \E any_day \in CalendarDays :
          /\ probe.fn = "none"
          /\ LastDayOfMonthCall(any_day)
    \/ \E target_date \in ListDays, date_list \in ListInputs :
          /\ probe.fn = "none"
          /\ FindClosestEarlierDateCall(target_date, date_list)

SpecCalendar == InitCalendar /\ [][NextCalendar]_vars

-----------------------------------------------------------------------------
(* What the claims are stated with *)

RECURSIVE SumFunds(_, _)
SumFunds(f, keys) ==
    IF keys = {} THEN RInt(0)
    ELSE LET k == CHOOSE x \in keys : TRUE
         IN  RAdd(f[k], SumFunds(f, keys \ {k}))

\* The sum of all fund balances, cash included.
FundsTotal(f) == SumFunds(f, DOMAIN f)

\* balance k is amount * weight / 100, stated without a division
IsShare(balance, amount, weight) ==
    RMul(balance, RInt(100)) = RMul(amount, RInt(weight))

SeriesDates(series) == {series[k].date : k \in 1..Len(series)}

\* The return a series gives for a date: the row at the date, or else the
\* row of the latest date before it.
RowFor(series, date) ==
    IF date \in SeriesDates(series)
    THEN CHOOSE k \in 1..Len(series) : series[k].date = date
    ELSE CHOOSE k \in 1..Len(series) :
            /\ series[k].date < date
            /\ \A j \in 1..Len(series) :
                  series[j].date < date => series[j].date <= series[k].date

HasRowFor(series, date) == \E k \in 1..Len(series) : series[k].date <= date

\* balance has returned normally
BalanceReturned == last.op = "balance" /\ last.err = "none" /\ pc = "idle"

\* balance has just distributed its amount: the walk has not begun
BalanceDistributed == last.op = "balance" /\ pc = "walk" /\ walk_i = 1

-----------------------------------------------------------------------------
(* C1 *)

\* C1: allocate(w) with weights summing to at most 100 raises nothing and
\* makes the allocation exactly w; with weights summing to more than 100 it
\* raises ValueError and leaves the allocation, the funds and the trajectory
\* (daily_returns, final_returns) as they were.
ThmC1_Allocate ==
    [][(pc = "idle" /\ last'.op = "allocate") =>
          IF TotalWeight(last'.w) <= 100
          THEN last'.err = "none" /\ allocations' = last'.w
          ELSE /\ last'.err = "ValueError"
               /\ allocations' = allocations
               /\ funds' = funds
               /\ daily_returns' = daily_returns
               /\ final_returns' = final_returns]_vars

\* An over-allocation refused on a portfolio that holds an earlier
\* allocation and a recorded trajectory.
WitC1_Refused ==
    /\ last.op = "allocate"
    /\ last.err = "ValueError"
    /\ TotalWeight(last.w) > 100
    /\ allocations = [A |-> 50]
    /\ daily_returns # <<>>

-----------------------------------------------------------------------------
(* C2 *)

\* C2 as claimed: when balance(c) returns, every fund key k holds exactly
\* c * weight(k) / 100 (weight 0 for a key absent from the allocation), also
\* when the available dates and the return series are populated.
CexC2_FundsWhenBalanceReturns ==
    BalanceReturned =>
        \A k \in DOMAIN funds : IsShare(funds[k], last.amount, Weight(allocations, k))

\* C2 as amended: right after balance(c) has distributed c, before the walk
\* over the available dates that it then starts, every fund key k holds
\* exactly c * weight(k) / 100; when balance returns, this is still so if
\* the list of available dates is empty.
ThmC2_FundsAfterDistribution ==
    (BalanceDistributed \/ (BalanceReturned /\ useful_dates = <<>>)) =>
        \A k \in DOMAIN funds : IsShare(funds[k], last.amount, Weight(allocations, k))

\* 10000 distributed 50/50 over A and B, cash left with 0, the walk over a
\* populated list of dates about to begin.
WitC2_Distributed ==
    /\ BalanceDistributed
    /\ useful_dates # <<>>
    /\ allocations = [A |-> 50, B |-> 50]
    /\ funds = [A |-> RInt(5000), B |-> RInt(5000), cash |-> RInt(0)]

-----------------------------------------------------------------------------
(* C3 *)

\* What growing every balance of f by its instrument's return for the date
\* gives: a key without a return series keeps its balance.
Grown(f, returns_type, date) ==
    [t \in DOMAIN f |->
        IF t \in DOMAIN return_series
        THEN LET series == return_series[t][returns_type]
             IN  RMul(f[t], RAdd(RInt(1), series[RowFor(series, date)].ret))
        ELSE f[t]]

\* C3: a get_total_value(returns_type, d) that returns replaces every
\* instrument's balance b by b * (1 + r), r being the instrument's return at
\* d if d is a date of its series of that granularity and otherwise the
\* return of the latest earlier row, and returns the sum of all balances,
\* cash included, as they stand after the call. The same holds of the
\* revaluation each step of the walk makes, whose value is the row appended.
ThmC3_GetTotalValue ==
    [][/\ (pc = "idle" /\ last'.op = "get_total_value" /\ last'.err = "none") =>
            /\ funds' = Grown(funds, last'.returns_type, last'.until)
            /\ last'.ret = FundsTotal(funds')
       /\ (pc = "walk" /\ Len(daily_returns') = Len(daily_returns) + 1) =>
            LET date == useful_dates[walk_i]
                row  == daily_returns'[Len(daily_returns')]
            IN  /\ row.date = date
                /\ row.Returns = FundsTotal(Grown(funds, RDO.DAILY.returns, date))
                /\ date \notin Range(rebalance_dates) =>
                      funds' = Grown(funds, RDO.DAILY.returns, date)]_vars

\* A revaluation at a date that B's daily series has and A's has not, of
\* balances that are not zero.
WitC3_ExactAndEarlier ==
    /\ last.op = "get_total_value"
    /\ last.err = "none"
    /\ last.returns_type = RDO.DAILY.returns
    /\ DOMAIN return_series = {"A", "B"}
    /\ last.until \in SeriesDates(return_series["B"][last.returns_type])
    /\ last.until \notin SeriesDates(return_series["A"][last.returns_type])
    /\ funds["A"] # RInt(0)
    /\ funds["B"] # RInt(0)
    /\ last.ret = FundsTotal(funds)

-----------------------------------------------------------------------------
(* C4 *)

-----------------------------------------------------------------------------
(* C5 *)

\* C5: for every calendar date, last_day_of_month returns a date of the
\* same year and month whose day number is the number of days of that month
\* (28, 29, 30 or 31), and applied to its own result it returns that result.
ThmC5_LastDayOfMonth ==
    probe.fn = "last_day_of_month" =>
        /\ Year(probe.result) = Year(probe.target)
        /\ Month(probe.result) = Month(probe.target)
        /\ Day(probe.result) = DaysInMonth(Year(probe.target), Month(probe.target))
        /\ probe.again = probe.result

\* 2024-02-15 gives 2024-02-29.
WitC5_LeapFebruary ==
    /\ probe.fn = "last_day_of_month"
    /\ probe.target = DateOf(2024, 2, 15)
    /\ probe.result = DateOf(2024, 2, 29)

-----------------------------------------------------------------------------
(* The rebalance date sequence *)

\* generate_rebalance_dates has been called and has returned.
GenerateReturned ==
    last.op = "generate_rebalance_dates" /\ last.err = "none" /\ pc = "idle"

IsMonthEnd(d) == Day(d) = DaysInMonth(Year(d), Month(d))

MonthsBetween(a, b) == (Year(b) - Year(a)) * 12 + Month(b) - Month(a)

\* Some available date lies in the calendar month of d.
MonthHasAvailableDate(d) ==
    \E u \in Range(useful_dates) : Year(u) = Year(d) /\ Month(u) = Month(d)

(* C6 *)

\* C6: under the monthly policy, with start a month end, end the month end
\* k >= 1 months later, and available dates that hold the start date and a
\* date of every month up to the end's (the end itself need not be one),
\* generate_rebalance_dates leaves exactly k rebalance dates, the last of
\* them the end date, strictly increasing, none of them the start date.
CexC6_OneDatePerMonth ==
    LET k == MonthsBetween(start_date, end_date)
    IN  (/\ GenerateReturned
         /\ rebalance_frequency = FrequencyEntry("MONTHLY")
         /\ IsMonthEnd(start_date)
         /\ IsMonthEnd(end_date)
         /\ k >= 1
         /\ start_date \in Range(useful_dates)
         /\ \A j \in 1..k : MonthHasAvailableDate(AddMonths(start_date, j)))
        => /\ Len(rebalance_dates) = k
           /\ rebalance_dates[k] = end_date
           /\ IsStrictlyIncreasing(rebalance_dates)
           /\ start_date \notin Range(rebalance_dates)

(* C7 *)

\* C7: whenever generate_rebalance_dates returns for a policy taken from
\* the options table, the rebalance dates are strictly increasing, none is
\* later than the end date, and the last one is the end date.
CexC7_OrderedUpToEnd ==
    (/\ GenerateReturned
     /\ rebalance_frequency.form = "entry"
     /\ None \notin Range(rebalance_dates))
    => /\ rebalance_dates # <<>>
       /\ IsStrictlyIncreasing(rebalance_dates)
       /\ \A i \in DOMAIN rebalance_dates : rebalance_dates[i] <= end_date
       /\ rebalance_dates[Len(rebalance_dates)] = end_date

(* C8 *)

\* C8 as stated: whenever generate_rebalance_dates returns, start = end
\* included, the start date is not one of the rebalance dates.
CexC8_StartNeverIncluded ==
    GenerateReturned => start_date \notin Range(rebalance_dates)

\* C8, amended: whenever generate_rebalance_dates returns and the start
\* date is earlier than the end date, the start date is not one of the
\* rebalance dates.
ThmC8_StartExcludedBeforeEnd ==
    (GenerateReturned /\ start_date < end_date)
        => start_date \notin Range(rebalance_dates)

\* A monthly sequence of two dates or more whose start date is an available
\* month end: the first iteration snaps to the start date and skips it.
WitC8_StartSkipped ==
    /\ GenerateReturned
    /\ start_date < end_date
    /\ rebalance_frequency = FrequencyEntry("MONTHLY")
    /\ IsMonthEnd(start_date)
    /\ start_date \in Range(useful_dates)
    /\ Len(rebalance_dates) >= 2

(* C9 *)

\* C9: whenever generate_rebalance_dates returns for the never entry of the
\* options table (the constructor's default) and some dates are available,
\* the rebalance dates are exactly <<end>>.
CexC9_NeverIsEndOnly ==
    (/\ GenerateReturned
     /\ rebalance_frequency = FrequencyEntry("NEVER")
     /\ useful_dates # <<>>)
    => rebalance_dates = <<end_date>>

-----------------------------------------------------------------------------
(* C10 *)

\* The walk has just reset the funds at a rebalance date.
WalkRebalanced ==
    /\ pc = "walk"
    /\ walk_i > 1
    /\ useful_dates[walk_i - 1] \in Range(rebalance_dates)

\* rebalance, called on its own, has just reset the funds.
RebalanceReturned == last.op = "rebalance" /\ last.err = "none" /\ pc = "idle"

\* The amount the distribution just made was given: balance's argument, or
\* the value of the last row of the trajectory.
DistributedAmount ==
    IF BalanceDistributed THEN last.amount
    ELSE daily_returns[Len(daily_returns)].Returns

\* C10: right after a distribution (by balance, or at a rebalance) under an
\* allocation that sums to s < 100 and has no cash key, the cash fund holds
\* amount * (100 - s) / 100 and the fund balances sum to the amount.
CexC10_ResidualIsCash ==
    (/\ BalanceDistributed \/ WalkRebalanced \/ RebalanceReturned
     /\ TotalWeight(allocations) < 100
     /\ "cash" \notin DOMAIN allocations)
    => /\ IsShare(funds["cash"], DistributedAmount, 100 - TotalWeight(allocations))
       /\ FundsTotal(funds) = DistributedAmount

-----------------------------------------------------------------------------
(* The statistics of the trajectory *)

\* x / y for y # 0
RDiv(x, y) ==
    IF x[1] * y[2] * y[1] < 0
    THEN RNorm(0 - Abs(x[1] * y[2]), Abs(x[2] * y[1]))
    ELSE RNorm(Abs(x[1] * y[2]), Abs(x[2] * y[1]))

RLess(x, y) == x[1] * y[2] < y[1] * x[2]

RECURSIVE InsertByDate(_, _)
\* row put into rows, which are in date order, after the rows of its date
InsertByDate(rows, row) ==
    IF rows = <<>> THEN <<row>>
    ELSE IF rows[Len(rows)].date <= row.date THEN Append(rows, row)
    ELSE Append(InsertByDate(SubSeq(rows, 1, Len(rows) - 1), row), rows[Len(rows)])

RECURSIVE SortIndex(_)
\* DataFrame.sort_index(): the rows in date order, rows of one date in the
\* order they had.
SortIndex(rows) ==
    IF rows = <<>> THEN <<>>
    ELSE InsertByDate(SortIndex(SubSeq(rows, 1, Len(rows) - 1)), rows[Len(rows)])

\* What a division by a zero taken from the Returns column does depends on
\* what the column holds: numpy float64 gives nan or inf, a Python float
\* raises ZeroDivisionError.
NumericKinds == {"float64", "object"}

CagrValue(kind, ratio, days) == [kind |-> kind, ratio |-> ratio, days |-> days]

\* calculate_cagr on a trajectory with a row or more, after its sort_index
\* (lines 335-348): (end_value / start_value) ** (1 / years) - 1 with
\* years = days / 365.25, a Python float, so that 1 / years raises when the
\* first and the last date are the same. The power is left unevaluated
\* unless its base is 1 (the result is then 0.0) or is nan, inf or negative.
CagrOfSorted(rows, numeric) ==
    LET start_value == rows[1].Returns
        end_value   == rows[Len(rows)].Returns
        days        == rows[Len(rows)].date - rows[1].date
        ratio       == IF start_value[1] = 0
                       THEN (IF end_value[1] = 0 THEN NaN ELSE Inf)
                       ELSE RDiv(end_value, start_value)
    IN  IF start_value[1] = 0 /\ numeric = "object"
        THEN [err |-> "ZeroDivisionError", value |-> CagrValue("none", RInt(0), 0)]
        ELSE IF days = 0
        THEN [err |-> "ZeroDivisionError", value |-> CagrValue("none", RInt(0), 0)]
        ELSE IF ratio = RInt(1)
        THEN [err |-> "none", value |-> CagrValue("zero", RInt(0), 0)]
        ELSE IF ratio[2] = 0 \/ ratio[1] < 0
        THEN [err |-> "none", value |-> CagrValue("nan", ratio, days)]
        ELSE [err |-> "none", value |-> CagrValue("power", ratio, days)]

\* calculate_cagr, lines 327-348
calculate_cagr(rows, numeric) ==
    IF rows = <<>>
    THEN [err |-> "none", value |-> CagrValue("zero", RInt(0), 0)]
    ELSE CagrOfSorted(SortIndex(rows), numeric)

\* A caller's calculate_cagr(): the trajectory is sorted in place (line 333)
\* before anything can raise.
CalculateCagr ==
    /\ pc = "idle"
    /\ \E numeric \in NumericKinds :
          LET out == calculate_cagr(daily_returns, numeric)
          IN  stat' = [fn |-> "calculate_cagr", err |-> out.err, value |-> out.value]
    /\ daily_returns' = SortIndex(daily_returns)
    /\ UNCHANGED <<funds, allocations, return_series, start_date, current_date,
                   end_date, rebalance_frequency, rebalance_dates, useful_dates,
                   final_returns, pc, walk_i, direct_calls, last, probe,
                   monthly_returns,
                   annually_returns, rendered>>

\* The dates of the rows of a table, in row order.
IndexOf(rows) == [k \in 1..Len(rows) |-> rows[k].date]

\* table.loc[date, 'Returns'] for a table with one row of that date
ReturnsAt(rows, date) ==
    rows[CHOOSE k \in 1..Len(rows) : rows[k].date = date].Returns

\* pandas.concat([table, new_row]): the new row has no Change yet.
ConcatRow(table, date, returns) ==
    Append(table, [date |-> date, Returns |-> returns, Change |-> NaN])

\* Lines 110-125: the month's last trading day is added to the table if it
\* is not there, and then the trajectory's first date if it is not there.
AddMonthRows(table, daily, last_trading_day, first_date) ==
    LET with_last == IF last_trading_day # None
                        /\ last_trading_day \notin Range(IndexOf(table))
                     THEN ConcatRow(table, last_trading_day,
                                    ReturnsAt(daily, last_trading_day))
                     ELSE table
    IN  IF first_date \notin Range(IndexOf(with_last))
        THEN ConcatRow(with_last, first_date, ReturnsAt(daily, first_date))
        ELSE with_last

RECURSIVE MonthlyLoop(_, _, _, _, _)
\* The while loop of calculate_monthly_returns, lines 103-129.
MonthlyLoop(current, table, daily, first_date, last_date) ==
    IF ~(current <= last_date) THEN table
    ELSE LET last_calendar_day == last_day_of_month(current)
             last_trading_day  == find_closest_earlier_date(last_calendar_day,
                                                            IndexOf(daily))
         IN  MonthlyLoop(AddDays(last_calendar_day, 1),
                         AddMonthRows(table, daily, last_trading_day, first_date),
                         daily, first_date, last_date)

\* index.min() and index.max() of a trajectory with a row or more
MinDate(rows) == CHOOSE d \in Range(IndexOf(rows)) : \A e \in Range(IndexOf(rows)) : d <= e

MaxDate(rows) == CHOOSE d \in Range(IndexOf(rows)) : \A e \in Range(IndexOf(rows)) : e <= d

\* calculate_monthly_returns, lines 91-135: the rows are added, the Change
\* column is taken over the rows in the order they then have (line 132),
\* and only then is the table sorted (line 135). With an empty trajectory
\* min() and max() are NaT and the loop does not run.
calculate_monthly_returns(table, daily) ==
    IF daily = <<>> THEN SortIndex(WithChange(table))
    ELSE SortIndex(WithChange(MonthlyLoop(MinDate(daily), table, daily,
                                          MinDate(daily), MaxDate(daily))))

\* A caller's calculate_monthly_returns() (__str__ is one, line 419).
CalculateMonthlyReturns ==
    /\ pc = "idle"
    /\ monthly_returns' = calculate_monthly_returns(monthly_returns, daily_returns)
    /\ stat' = [fn |-> "calculate_monthly_returns", err |-> "none", value |-> "none"]
    /\ UNCHANGED <<funds, allocations, return_series, start_date, current_date,
                   end_date, rebalance_frequency, rebalance_dates, useful_dates,
                   daily_returns, final_returns, pc, walk_i, direct_calls, last,
                   probe,
                   annually_returns, rendered>>

\* Float arithmetic with nan and inf, as numpy computes it (nothing raises).
XMul(x, y) ==
    IF x = NaN \/ y = NaN THEN NaN
    ELSE IF x = Inf \/ y = Inf
         THEN (IF x[1] = 0 \/ y[1] = 0 THEN NaN ELSE Inf)
    ELSE RMul(x, y)

XOnePlus(x) == IF x[2] = 0 THEN x ELSE RAdd(RInt(1), x)

\* x > y: False when either is nan
XGreater(x, y) ==
    IF x = NaN \/ y = NaN THEN FALSE
    ELSE IF y = Inf THEN FALSE
    ELSE IF x = Inf THEN TRUE
    ELSE RLess(y, x)

\* (peak - cum_return) / peak, line 382
DrawdownFrom(peak, cum_return) ==
    IF peak[2] = 0 \/ cum_return[2] = 0 THEN NaN
    ELSE IF peak[1] = 0
         THEN (IF cum_return[1] = 0 THEN NaN ELSE Inf)
    ELSE RDiv(RAdd(peak, RMul(RInt(0 - 1), cum_return)), peak)

\* fillna(0) of the Change column
FillNa(table) ==
    [k \in 1..Len(table) |->
        IF table[k].Change = NaN THEN [table[k] EXCEPT !.Change = RInt(0)]
        ELSE table[k]]

RECURSIVE CumProd(_, _)
\* (1 + Change).cumprod(): a nan is skipped by the running product and
\* stays nan at its own position.
CumProd(changes, running) ==
    IF changes = <<>> THEN <<>>
    ELSE IF Head(changes) = NaN THEN <<NaN>> \o CumProd(Tail(changes), running)
    ELSE LET product == XMul(running, XOnePlus(Head(changes)))
         IN  <<product>> \o CumProd(Tail(changes), product)

RECURSIVE DrawdownLoop(_, _, _)
\* The for loop of lines 376-386.
DrawdownLoop(cumulative, peak, max_drawdown) ==
    IF cumulative = <<>> THEN max_drawdown
    ELSE LET peak2    == IF XGreater(Head(cumulative), peak) THEN Head(cumulative)
                         ELSE peak
             drawdown == DrawdownFrom(peak2, Head(cumulative))
         IN  DrawdownLoop(Tail(cumulative), peak2,
                          IF XGreater(drawdown, max_drawdown) THEN drawdown
                          ELSE max_drawdown)

\* calculate_max_drawdown, lines 362-388, on the Change column it reads at
\* line 369.
calculate_max_drawdown(table) ==
    IF table = <<>> THEN RInt(0)
    ELSE LET cumulative == CumProd([k \in 1..Len(table) |-> table[k].Change], RInt(1))
         IN  DrawdownLoop(cumulative, cumulative[1], RInt(0))

\* A caller's calculate_max_drawdown(). Line 366 calls fillna(0,
\* inplace=True) on the column taken out of the frame: whether the frame's
\* own column is filled depends on whether pandas hands out a view of it
\* or a copy, so both are outcomes.
CalculateMaxDrawdown ==
    /\ pc = "idle"
    /\ \E filled \in BOOLEAN :
          /\ monthly_returns' = IF filled THEN FillNa(monthly_returns)
                                ELSE monthly_returns
          /\ stat' = [fn |-> "calculate_max_drawdown", err |-> "none",
                      value |-> calculate_max_drawdown(monthly_returns')]
    /\ UNCHANGED <<funds, allocations, return_series, start_date, current_date,
                   end_date, rebalance_frequency, rebalance_dates, useful_dates,
                   daily_returns, final_returns, pc, walk_i, direct_calls, last,
                   probe,
                   annually_returns, rendered>>

RECURSIVE DropNa(_)
\* The values of a column that are not nan, in row order.
DropNa(column) ==
    IF column = <<>> THEN <<>>
    ELSE (IF Head(column) = NaN THEN <<>> ELSE <<Head(column)>>) \o DropNa(Tail(column))

RECURSIVE RSum(_)
RSum(values) == IF values = <<>> THEN RInt(0) ELSE RAdd(Head(values), RSum(Tail(values)))

\* The square of Series.std(): the sample variance (denominator n - 1) of
\* the values that are not nan; nan when fewer than two are left or when
\* one of them is inf.
SampleVariance(values) ==
    LET n    == Len(values)
        mean == RDivInt(RSum(values), n)
        sq   == [k \in 1..n |->
                    LET d == RAdd(values[k], RMul(RInt(0 - 1), mean)) IN RMul(d, d)]
    IN  IF n < 2 \/ Inf \in Range(values) THEN NaN
        ELSE RDivInt(RSum(sq), n - 1)

\* The Change column of a table.
ChangesOf(table) == [k \in 1..Len(table) |-> table[k].Change]

calculate_stdev_no_sentinel(table, annual) ==
    [kind |-> "std", changes |-> DropNa(ChangesOf(table)),
     variance |-> SampleVariance(DropNa(ChangesOf(table))),
     annually_changes |-> DropNa(ChangesOf(annual)),
     annually_variance |-> SampleVariance(DropNa(ChangesOf(annual)))]

\* calculate_stdev, lines 350-360: fewer than two rows in the monthly table
\* give the sentinel {'monthly': 0}; otherwise the standard deviations of
\* the monthly and of the annual Change column are returned, each given
\* here by the changes it is taken over and by its square.
calculate_stdev(table, annual) ==
    IF Len(table) < 2
    THEN [kind |-> "zero", changes |-> <<>>, variance |-> RInt(0)]
    ELSE [kind |-> "std", changes |-> DropNa(ChangesOf(table)),
          variance |-> SampleVariance(DropNa(ChangesOf(table))),
          annually_changes |-> DropNa(ChangesOf(annual)),
          annually_variance |-> SampleVariance(DropNa(ChangesOf(annual)))]

\* A caller's calculate_stdev(). The dropna(inplace=True) of lines 355 and
\* 357 acts on the column taken out of the frame and removes no row of the
\* frame.
CalculateStdev ==
    /\ pc = "idle"
    /\ stat' = [fn |-> "calculate_stdev", err |-> "none",
                value |-> calculate_stdev(monthly_returns, annually_returns)]
    /\ UNCHANGED <<funds, allocations, return_series, start_date, current_date,
                   end_date, rebalance_frequency, rebalance_dates, useful_dates,
                   daily_returns, final_returns, pc, walk_i, direct_calls, last,
                   probe, monthly_returns,
                   annually_returns, rendered>>

\* Lines 155-158 and 161-164: the row of the trajectory at a date is added
\* to the table if the date is not in its index.
AddRowIfMissing(table, daily, date) ==
    IF date \notin Range(IndexOf(table))
    THEN ConcatRow(table, date, ReturnsAt(daily, date))
    ELSE table

RECURSIVE AnnualLoop(_, _, _, _)
\* The for loop of lines 171-186: every year's last trading day, if there
\* is one at or before its 31 December, is added if it is not there.
AnnualLoop(year, end_year, table, daily) ==
    IF year > end_year THEN table
    ELSE LET last_trading_day_of_year ==
                 find_closest_earlier_date(DateOf(year, 12, 31), IndexOf(daily))
         IN  AnnualLoop(year + 1, end_year,
                        IF last_trading_day_of_year # None
                        THEN AddRowIfMissing(table, daily, last_trading_day_of_year)
                        ELSE table,
                        daily)

\* calculate_annually_returns, lines 137-192, on a trajectory with a row
\* or more: a span of less than 365 days adds the first and the last date,
\* a longer one every year's last trading day; the Change column is taken
\* over the rows in the order they then have (line 189), and only then is
\* the table sorted (line 192).
calculate_annually_returns(table, daily) ==
    LET first_date == MinDate(daily)
        last_date  == MaxDate(daily)
        rows == IF last_date - first_date < 365
                THEN AddRowIfMissing(AddRowIfMissing(table, daily, first_date),
                                     daily, last_date)
                ELSE AnnualLoop(Year(first_date), Year(last_date), table, daily)
    IN  SortIndex(WithChange(rows))

\* What calculate_annually_returns raises on an empty trajectory, whose
\* min() and max() are NaT: NaT has no day count to compare with 365 and
\* no integer year to range over; which of the two is met first is the
\* library's choice.
NaTErrors == {"AttributeError", "TypeError"}

\* __str__, lines 409-430: calculate_monthly_returns, then
\* calculate_annually_returns, then the two tables are printed and
\* formatted (the text is not part of the state). On an empty trajectory
\* the monthly table has been recomputed when the annual one raises.
Str ==
    /\ pc = "idle"
    /\ rendered' = TRUE
    /\ monthly_returns' = calculate_monthly_returns(monthly_returns, daily_returns)
    /\ IF daily_returns = <<>>
       THEN /\ annually_returns' = annually_returns
            /\ \E e \in NaTErrors :
                  stat' = [fn |-> "__str__", err |-> e, value |-> "none"]
       ELSE /\ annually_returns' =
                   calculate_annually_returns(annually_returns, daily_returns)
            /\ stat' = [fn |-> "__str__", err |-> "none", value |-> "none"]
    /\ UNCHANGED <<funds, allocations, return_series, start_date, current_date,
                   end_date, rebalance_frequency, rebalance_dates, useful_dates,
                   daily_returns, final_returns, pc, walk_i, direct_calls, last,
                   probe>>

-----------------------------------------------------------------------------
(* A run, then its statistics *)

S0 == DateOf(2022, 1, 10)

S1 == DateOf(2022, 1, 31)

S2 == DateOf(2022, 2, 28)

S3 == DateOf(2022, 3, 31)

\* Daily returns that take 100 to 120, 90 and 110.
SeriesStats ==
    SeriesOf(<<Row(S0, 0, 1), Row(S1, 1, 5), Row(S2, 0 - 1, 4), Row(S3, 2, 9)>>,
             <<Row(S3, 1, 10)>>, <<>>)

StatDays == {S0, S1, S2, S3}

StatFrequencyInputs == {FrequencyEntry("NEVER"), FrequencyEntry("MONTHLY")}

StatWeightInputs == {[A |-> 100]}

StatAmountInputs == {RInt(100)}

InitStats ==
    \E frequency \in StatFrequencyInputs :
        Construct([A |-> SeriesStats], S0, S3, frequency)

\* One run: the available dates are loaded, weights may be allocated, and
\* balance walks the dates once; the statistics are asked for at any time.
NextStats ==
    \/ \E w \in StatWeightInputs : Allocate(w)
    \/ \E hist \in SUBSET StatDays :
          /\ useful_dates = <<>>
          /\ CalculateReturns(hist)
    \/ \E initial_cash \in StatAmountInputs :
          /\ daily_returns = <<>>
          /\ Balance(initial_cash)
    \/ WalkStep
    \/ WalkEnd
    \/ CalculateCagr
    \/ CalculateMonthlyReturns
    \/ CalculateMaxDrawdown
    \/ CalculateStdev

SpecStats == InitStats /\ [][NextStats]_vars

-----------------------------------------------------------------------------
(* A run, its statistics and its report: the tables are computed by
   __str__ alone, as they are in the repository *)

NextReport ==
    \/ \E w \in StatWeightInputs : Allocate(w)
    \/ \E hist \in SUBSET StatDays :
          /\ useful_dates = <<>>
          /\ CalculateReturns(hist)
    \/ \E initial_cash \in StatAmountInputs :
          /\ daily_returns = <<>>
          /\ Balance(initial_cash)
    \/ WalkStep
    \/ WalkEnd
    \/ CalculateCagr
    \/ CalculateMaxDrawdown
    \/ CalculateStdev
    \/ Str

SpecReport == InitStats /\ [][NextReport]_vars

-----------------------------------------------------------------------------
(* C11 *)

\* C11: calculate_cagr raises nothing and returns 0 whenever the trajectory
\* has fewer than two rows, its first value is <= 0, or its first and last
\* dates are the same.
CexC11_CagrNeutralZero ==
    (/\ stat.fn = "calculate_cagr"
     /\ \/ Len(daily_returns) < 2
        \/ daily_returns[1].Returns[1] <= 0
        \/ daily_returns[Len(daily_returns)].date = daily_returns[1].date)
    => /\ stat.err = "none"
       /\ stat.value.kind = "zero"

-----------------------------------------------------------------------------
(* C12 *)

\* The largest fall (v_i - v_j) / v_i from a value to a value not before it.
LargestFall(values) ==
    LET falls == {RDiv(RAdd(values[i], RMul(RInt(0 - 1), values[j])), values[i]) :
                     <<i, j>> \in {p \in (1..Len(values)) \X (1..Len(values)) :
                                      p[1] <= p[2]}}
    IN  CHOOSE x \in falls : \A y \in falls : ~RLess(x, y)

\* The values of a table, in row order.
ReturnsOf(rows) == [k \in 1..Len(rows) |-> rows[k].Returns]

\* C12: over the positive values v_1..v_n of the monthly table, which is in
\* date order, calculate_max_drawdown returns the largest (v_i - v_j) / v_i
\* with i <= j. Stated of the calls that left no nan in the Change column.
CexC12_LargestFallFromPeak ==
    (/\ stat.fn = "calculate_max_drawdown"
     /\ monthly_returns # <<>>
     /\ \A k \in 1..Len(monthly_returns) :
           /\ monthly_returns[k].Returns[1] > 0
           /\ monthly_returns[k].Change # NaN)
    => stat.value = LargestFall(ReturnsOf(monthly_returns))

-----------------------------------------------------------------------------
(* C13 *)

\* A step that is a call of calculate_returns.
CalculateReturnsStep == pc = "idle" /\ last'.op = "calculate_returns"

\* What calculate_returns leaves alone whatever history it is given.
CalculateReturnsFrame ==
    /\ funds' = funds
    /\ allocations' = allocations
    /\ daily_returns' = daily_returns
    /\ final_returns' = final_returns
    /\ rebalance_dates' = rebalance_dates
    /\ return_series' = return_series

-----------------------------------------------------------------------------
(* C14 *)

\* C14: at every point of every sequence of operations, balance called more
\* than once included, the dates of the trajectory's rows are strictly
\* increasing in the order the rows were appended.
CexC14_TrajectoryInDateOrder == IsStrictlyIncreasing(IndexOf(daily_returns))

-----------------------------------------------------------------------------
(* C15 *)

StepPolicies == {FrequencyEntry(k) : k \in {"MONTHLY", "QUARTERLY", "SEMI_ANNUALLY",
                                            "ANNUALLY"}}

\* C15: for a step policy and a list of available dates that is not empty,
\* a call of generate_rebalance_dates comes to its end (its loop is not one
\* that repeats for ever) and raises nothing.
CexC15_StepPoliciesTerminate ==
    (/\ last.op = "generate_rebalance_dates"
     /\ rebalance_frequency \in StepPolicies
     /\ useful_dates # <<>>)
    => /\ pc # "hang"
       /\ last.err = "none"

-----------------------------------------------------------------------------
(* C16 *)

\* C16: when the walk that balance starts has come to its end, a value has
\* been recorded in the trajectory for every date of the rebalance date
\* sequence, the end date included, whether or not it is an available date.
\* Stated of the runs whose start date is an available date.
CexC16_EveryRebalanceDateRecorded ==
    (/\ BalanceReturned
     /\ start_date \in Range(useful_dates)
     /\ None \notin Range(rebalance_dates))
    => \A d \in Range(rebalance_dates) : d \in Range(IndexOf(daily_returns))

-----------------------------------------------------------------------------
(* C17 *)

\* The last n elements of s.
LastN(s, n) == SubSeq(s, Len(s) - n + 1, Len(s))

\* C17 as stated: when balance has returned, the trajectory (daily_returns,
\* or final_returns if that is what is meant) has as many entries as there
\* are rebalance dates, plus one. Stated of the runs whose start date is an
\* available date and whose rebalance date sequence is not empty.
CexC17_OneEntryPerRebalanceDate ==
    (/\ BalanceReturned
     /\ start_date \in Range(useful_dates)
     /\ rebalance_dates # <<>>)
    => \/ Len(daily_returns) = Len(rebalance_dates) + 1
       \/ Len(final_returns) = Len(rebalance_dates) + 1

\* C17, amended: when balance has returned, the trajectory ends with one
\* row per available date, in the order of the list of available dates
\* (rows before these are the ones earlier walks left), and final_returns
\* holds the initial entry alone.
ThmC17_OneEntryPerAvailableDate ==
    BalanceReturned =>
        /\ Len(daily_returns) >= Len(useful_dates)
        /\ LastN(IndexOf(daily_returns), Len(useful_dates)) = useful_dates
        /\ Len(final_returns) = 1

\* A completed run over three available dates with a single rebalance date.
WitC17_ThreeRowsOneRebalanceDate ==
    /\ BalanceReturned
    /\ Len(useful_dates) = 3
    /\ IndexOf(daily_returns) = useful_dates
    /\ rebalance_dates = <<end_date>>

-----------------------------------------------------------------------------
(* C18 *)

\* How many dates the walk in progress has visited.
Walked == walk_i - 1

\* The last visited position at which the walk reset the funds, 0 if none.
LastReset ==
    LET resets == {k \in 1..Walked : useful_dates[k] \in Range(rebalance_dates)}
    IN  IF resets = {} THEN 0 ELSE CHOOSE k \in resets : \A j \in resets : j <= k

\* The rows of ticker's daily series that the visits from..to read.
RowsRead(ticker, from, to) ==
    {RowFor(return_series[ticker]["daily_returns"], useful_dates[k]) : k \in from..to}

RECURSIVE GrowthOf(_, _)
\* The product of (1 + return) over rows of a series, each row once.
GrowthOf(series, rows) ==
    IF rows = {} THEN RInt(1)
    ELSE LET i == CHOOSE x \in rows : TRUE
         IN  RMul(RAdd(RInt(1), series[i].ret), GrowthOf(series, rows \ {i}))

\* The amount of the walk's last distribution: balance's argument, or the
\* value recorded at the last reset.
LastDistributed ==
    IF LastReset = 0 THEN last.amount
    ELSE daily_returns[Len(daily_returns) - Walked + LastReset].Returns

\* C18: at every point of the walk that balance starts, the balance of an
\* instrument that has a return series is its share of the last
\* distribution grown once by every row of its daily series that the walk
\* has read since, and by no row that the walk had read before.
CexC18_EachRowCompoundedOnce ==
    (pc = "walk" /\ last.op = "balance" /\ Walked >= 1)
    => \A t \in DOMAIN return_series :
          funds[t] = RMul(Share(LastDistributed, Weight(allocations, t)),
                          GrowthOf(return_series[t]["daily_returns"],
                                   RowsRead(t, LastReset + 1, Walked)
                                       \ RowsRead(t, 1, LastReset)))

-----------------------------------------------------------------------------
(* C19 *)

\* The fund keys that have no return series.
WithoutSeries == DOMAIN funds \ DOMAIN return_series

\* C19: a get_total_value, called by a caller for any date or by the walk,
\* leaves the balance of every fund key that has no return series as it
\* was; if it raises, some instrument that has a series has no row at or
\* before the date; and when no instrument at all has a return series it
\* raises nothing, changes no balance and returns the sum of the balances.
ThmC19_NoSeriesNoGrowth ==
    [][/\ (pc = "idle" /\ last'.op = "get_total_value") =>
            /\ \A t \in WithoutSeries : funds'[t] = funds[t]
            /\ last'.err # "none" =>
                  \E t \in DOMAIN return_series :
                      ~HasRowFor(return_series[t][last'.returns_type], last'.until)
            /\ DOMAIN return_series = {} =>
                  /\ last'.err = "none"
                  /\ funds' = funds
                  /\ last'.ret = FundsTotal(funds)
       /\ (/\ pc = "walk"
           /\ walk_i <= Len(useful_dates)
           /\ useful_dates[walk_i] \notin Range(rebalance_dates)) =>
            /\ \A t \in WithoutSeries : funds'[t] = funds[t]
            /\ DOMAIN return_series = {} =>
                  /\ last'.err = "none"
                  /\ Len(daily_returns') = Len(daily_returns) + 1
                  /\ daily_returns'[Len(daily_returns')].Returns = FundsTotal(funds)]_vars

\* A caller's revaluation that grew A and left B, which has no series and
\* is not empty, as it was.
WitC19_MissingTickerKept ==
    /\ last.op = "get_total_value"
    /\ last.err = "none"
    /\ DOMAIN return_series = {"A"}
    /\ funds["B"] # RInt(0)
    /\ funds["A"] # RInt(0)
    /\ funds["A"] # funds["B"]
    /\ last.ret = FundsTotal(funds)

-----------------------------------------------------------------------------
(* C20 *)

\* The change from the row before row k of a table to row k.
ChronologicalChange(table, k) == PctChange(table[k].Returns, table[k - 1].Returns)

\* C20: when calculate_stdev or calculate_max_drawdown has read a monthly
\* table of positive values, the table is in date order, the change of
\* every row after the first is the change from the row before it, and the
\* changes calculate_stdev was taken over are exactly these.
CexC20_ChangesAreChronological ==
    (/\ stat.fn \in {"calculate_stdev", "calculate_max_drawdown"}
     /\ monthly_returns # <<>>
     /\ \A k \in 1..Len(monthly_returns) : monthly_returns[k].Returns[1] > 0)
    => /\ IsStrictlyIncreasing(IndexOf(monthly_returns))
       /\ \A k \in 2..Len(monthly_returns) :
             monthly_returns[k].Change = ChronologicalChange(monthly_returns, k)
       /\ (stat.fn = "calculate_stdev" /\ stat.value.kind = "std") =>
             stat.value.changes =
                 [k \in 1..(Len(monthly_returns) - 1) |->
                     ChronologicalChange(monthly_returns, k + 1)]

-----------------------------------------------------------------------------
(* C21 *)

\* Lines 275-276 applied to the start date: the date the loop's first
\* iteration holds when no calendar step is taken.
SnappedStart ==
    IF start_date \notin Range(useful_dates)
    THEN find_closest_earlier_date(start_date, useful_dates)
    ELSE start_date

-----------------------------------------------------------------------------
(* C22 *)

\* C22: as long as __str__ has not been invoked, whatever allocate, balance
\* and the statistics have done, the monthly and the annual table are
\* empty, a calculate_max_drawdown that was the last statistic asked for
\* returned 0 and a calculate_stdev that was returned the sentinel
\* {'monthly': 0}, without an error.
ThmC22_TablesEmptyUntilStr ==
    ~rendered =>
        /\ monthly_returns = <<>>
        /\ annually_returns = <<>>
        /\ stat.fn = "calculate_max_drawdown" =>
              (stat.err = "none" /\ stat.value = RInt(0))
        /\ stat.fn = "calculate_stdev" =>
              (stat.err = "none" /\ stat.value.kind = "zero"
               /\ stat.value.variance = RInt(0))

\* balance has walked a trajectory of three rows or more that falls from
\* one row to a later one, __str__ has not been invoked, and
\* calculate_stdev has returned its sentinel.
WitC22_FallingTrajectoryNoReport ==
    /\ ~rendered
    /\ pc = "idle"
    /\ Len(daily_returns) >= 3
    /\ \E j, k \in DOMAIN daily_returns :
          j < k /\ RLess(daily_returns[k].Returns, daily_returns[j].Returns)
    /\ stat.fn = "calculate_stdev"
    /\ stat.value.kind = "zero"

=============================================================================
